---- MODULE Spec2Model ----
(***************************************************************************)
(* BlueGrid front-end: the OCR grid editor (components/MatrixEditor.tsx)    *)
(* and the digitization workflow of App.tsx that hosts it.                  *)
(*                                                                          *)
(* Strings that the code inspects character by character (row labels) are   *)
(* sequences of one-character strings; strings it only copies (cell         *)
(* values, reference ids, file names) are opaque TLA+ strings.              *)
(***************************************************************************)
EXTENDS Integers, Sequences, FiniteSets, TLC

(***************************************************************************)
(* Bounds of the model.                                                     *)
(***************************************************************************)
\* longest row label, in characters, explored character by character
MaxLen == 6
\* longest matriz a server response carries
MaxCells == 2
\* cap on the length of the flat cell list (appends by edits stop there)
MaxList == 3
\* cap on the number of requests in flight at once
MaxInFlight == 1
\* requests in flight at a time, of all kinds, where requests race
MaxRacing == 2
\* cap on the number of documents the server hands out (ids 1..MaxDocs)
MaxDocs == 2

(***************************************************************************)
(* Characters and JavaScript string helpers.                                *)
(***************************************************************************)
Alphabet == {"F", "f", "i", "l", "a", " ", "1", "x"}

Digits == <<"0", "1", "2", "3", "4", "5", "6", "7", "8", "9">>

IsDigit(ch) == \E k \in 1..Len(Digits) : Digits[k] = ch

DigitVal(ch) == (CHOOSE k \in 1..Len(Digits) : Digits[k] = ch) - 1

IsSpace(ch) == ch \in {" ", "\t", "\n", "\r"}

UpperCase == <<"F", "I", "L", "A">>

LowerCase == <<"f", "i", "l", "a">>

ToLower(ch) ==
  IF \E k \in 1..Len(UpperCase) : UpperCase[k] = ch
  THEN LowerCase[CHOOSE k \in 1..Len(UpperCase) : UpperCase[k] = ch]
  ELSE ch

\* parseInt(text, 10) of a string of decimal digits
RECURSIVE parseInt(_)
parseInt(text) ==
  IF text = <<>> THEN 0
  ELSE parseInt(SubSeq(text, 1, Len(text) - 1)) * 10 + DigitVal(text[Len(text)])

\* index after the maximal run of whitespace (\s*) starting at index i
RECURSIVE SkipSpaces(_, _)
SkipSpaces(text, i) ==
  IF i <= Len(text) /\ IsSpace(text[i]) THEN SkipSpaces(text, i + 1) ELSE i

\* index after the maximal run of digits (\d+, greedy) starting at index i
RECURSIVE SkipDigits(_, _)
SkipDigits(text, i) ==
  IF i <= Len(text) /\ IsDigit(text[i]) THEN SkipDigits(text, i + 1) ELSE i

(***************************************************************************)
(* Row labels: a JSON value, tagged with its JavaScript typeof.             *)
(***************************************************************************)
NumLabel(k) == [t |-> "number", n |-> k, s |-> <<>>]

StrLabel(text) == [t |-> "string", n |-> 0, s |-> text]

NullLabel == [t |-> "object", n |-> 0, s |-> <<>>]

\* outcome of a call: a returned number, or a thrown TypeError
Returned(k) == [threw |-> FALSE, v |-> k]

Thrown == [threw |-> TRUE, v |-> 0]

\* /Fila\s*(\d+)/i tried at index i: the index after the match, or 0
FilaAt(text, i) ==
  LET word == <<"f", "i", "l", "a">>
      j == i + Len(word)
      k == SkipSpaces(text, j)
      e == SkipDigits(text, k)
  IN IF /\ j - 1 <= Len(text)
        /\ \A d \in 1..Len(word) : ToLower(text[i + d - 1]) = word[d]
        /\ e > k
     THEN e ELSE 0

\* the regular expression is tried at index i, then at the indexes after it:
\* the captured digits of the first match, or the empty sequence
RECURSIVE matchFilaFrom(_, _)
matchFilaFrom(text, i) ==
  IF i > Len(text) THEN <<>>
  ELSE IF FilaAt(text, i) > 0
       THEN SubSeq(text, SkipSpaces(text, i + 4), FilaAt(text, i) - 1)
  ELSE matchFilaFrom(text, i + 1)

\* rowLabel.match(/Fila\s*(\d+)/i): the captured digits of the leftmost
\* match, or the empty sequence when there is no match
matchFila(text) == matchFilaFrom(text, 1)

\* rowLabel.match(/^(\d+)$/): the captured digits, or the empty sequence
matchNum(text) ==
  IF text # <<>> /\ \A i \in 1..Len(text) : IsDigit(text[i]) THEN text ELSE <<>>

\* text.match(/(\d+)/)?.[1] || "0": the leftmost maximal run of digits at or
\* after index i, or "0" when there is none
RECURSIVE firstDigitsFrom(_, _)
firstDigitsFrom(text, i) ==
  IF i > Len(text) THEN <<"0">>
  ELSE IF IsDigit(text[i]) THEN SubSeq(text, i, SkipDigits(text, i) - 1)
  ELSE firstDigitsFrom(text, i + 1)

\* the test on oc.fila in the lookup of the data-original attribute, in the
\* desktop table and in renderMobileInput:
\* (typeof fila === 'string' ? parseInt(fila.match(/(\d+)/)?.[1] || "0") - 1
\*                            : fila) === row.index
originalRowMatches(fila, rowIndex) ==
  IF fila.t = "string" THEN parseInt(firstDigitsFrom(fila.s, 1)) - 1 = rowIndex
  ELSE IF fila.t = "number" THEN fila.n = rowIndex
  ELSE FALSE

\* mutant: a string of digits is taken as one-based too
parseRowIndex_decrementsDigits(rowLabel) ==
  IF rowLabel.t = "number" THEN Returned(rowLabel.n)
  ELSE IF rowLabel.t # "string" THEN Thrown
  ELSE IF matchFila(rowLabel.s) # <<>>
       THEN Returned(parseInt(matchFila(rowLabel.s)) - 1)
  ELSE IF matchNum(rowLabel.s) # <<>>
       THEN Returned(parseInt(matchNum(rowLabel.s)) - 1)
  ELSE Returned(-1)

parseRowIndex(rowLabel) ==
  IF rowLabel.t = "number" THEN Returned(rowLabel.n)
  ELSE IF rowLabel.t # "string" THEN Thrown
  ELSE IF matchFila(rowLabel.s) # <<>>
       THEN Returned(parseInt(matchFila(rowLabel.s)) - 1)
  ELSE IF matchNum(rowLabel.s) # <<>>
       THEN Returned(parseInt(matchNum(rowLabel.s)))
  ELSE Returned(-1)

(***************************************************************************)
(* Cells (types.ts, MatrixCell).  confianza is a fraction, kept here in     *)
(* hundred-thousandths; an absent ref_id is the marker Undefined.           *)
(***************************************************************************)
Undefined == "<undefined>"

\* confianza: 1.0, the confidence of a cell the user creates
FullConfidence == 100000

Cell(f, c, v, conf, ref) ==
  [fila |-> f, col |-> c, valor |-> v, confianza |-> conf, ref_id |-> ref]

\* Number(cell.col): col is a JSON number (types.ts), which Number returns
Number(col) == col

\* the row index a cell is filed under, where the parser returns
RowOf(cell) == parseRowIndex(cell.fila).v

\* the parser throws on some cell of the list
ThrowsOn(cellList) ==
  \E k \in 1..Len(cellList) : parseRowIndex(cellList[k].fila).threw

(***************************************************************************)
(* Documents (types.ts, OCRResponse).  An optional field is a sequence of   *)
(* length 0 (absent) or 1 (present).                                        *)
(***************************************************************************)
Doc(i, v2, legacy) == [id |-> i, resultado_ia |-> v2, matriz |-> legacy]

\* ocrData === null
NoDoc == Doc(0, <<>>, <<>>)

\* mutant: the legacy field is preferred to resultado_ia
InitialCells_legacyFirst(data) ==
  IF data # NoDoc /\ data.matriz # <<>>
  THEN [k \in 1..Len(data.matriz[1]) |-> data.matriz[1][k]]
  ELSE IF data # NoDoc /\ data.resultado_ia # <<>>
  THEN [k \in 1..Len(data.resultado_ia[1]) |-> data.resultado_ia[1][k]]
  ELSE <<>>

\* the init effect's choice of the initial cells, each cell copied ({...c})
InitialCells(data) ==
  IF data # NoDoc /\ data.resultado_ia # <<>>
  THEN [k \in 1..Len(data.resultado_ia[1]) |-> data.resultado_ia[1][k]]
  ELSE IF data # NoDoc /\ data.matriz # <<>>
  THEN [k \in 1..Len(data.matriz[1]) |-> data.matriz[1][k]]
  ELSE <<>>

\* JSON.parse(JSON.stringify(cellList)): every cell rebuilt from its own
\* enumerable properties; a property holding undefined is dropped, which
\* leaves it absent
JSONCopy(cellList) ==
  [k \in 1..Len(cellList) |->
     Cell(cellList[k].fila, cellList[k].col, cellList[k].valor,
          cellList[k].confianza, cellList[k].ref_id)]

(***************************************************************************)
(* Grid Builder (gridRows).  A grid position holds the index, in the flat   *)
(* list, of the cell object it refers to, or 0 for null.                    *)
(***************************************************************************)
FIXED_ROW_COUNT == 5

LAST_COL == 4

GridRowIndexes == 0..(FIXED_ROW_COUNT - 1)

GridColIndexes == 0..LAST_COL

\* mutant: a key already in rowMap is not overwritten (first write wins)
RECURSIVE rowMap_firstWins(_, _)
rowMap_firstWins(cellList, n) ==
  IF n = 0 THEN [p \in {} |-> 0]
  ELSE LET m == rowMap_firstWins(cellList, n - 1)
           rIndex == RowOf(cellList[n])
           cIndex == Number(cellList[n].col)
       IN IF rIndex >= 0 /\ rIndex < FIXED_ROW_COUNT /\ <<rIndex, cIndex>> \notin DOMAIN m
          THEN [p \in DOMAIN m \cup {<<rIndex, cIndex>>} |->
                  IF p = <<rIndex, cIndex>> THEN n ELSE m[p]]
          ELSE m

\* rowMap after the first n cells went through the forEach
RECURSIVE rowMap(_, _)
rowMap(cellList, n) ==
  IF n = 0 THEN [p \in {} |-> 0]
  ELSE LET m == rowMap(cellList, n - 1)
           rIndex == RowOf(cellList[n])
           cIndex == Number(cellList[n].col)
       IN IF rIndex >= 0 /\ rIndex < FIXED_ROW_COUNT
          THEN [p \in DOMAIN m \cup {<<rIndex, cIndex>>} |->
                  IF p = <<rIndex, cIndex>> THEN n ELSE m[p]]
          ELSE m

\* mutant: the column loop stops one short (c < 4)
gridRows_fourCols(cellList) ==
  LET m == rowMap(cellList, Len(cellList))
  IN [r \in GridRowIndexes |->
       [c \in 0..(LAST_COL - 1) |-> IF <<r, c>> \in DOMAIN m THEN m[<<r, c>>] ELSE 0]]

gridRows(cellList) ==
  LET m == rowMap(cellList, Len(cellList))
  IN [r \in GridRowIndexes |->
       [c \in GridColIndexes |-> IF <<r, c>> \in DOMAIN m THEN m[<<r, c>>] ELSE 0]]

(***************************************************************************)
(* Low-confidence flag of a grid position.  confianza is kept in units of   *)
(* 0.00001, so 0.85 is 85000.                                               *)
(***************************************************************************)
LowConfidenceBelow == 85000

\* mutant: the threshold itself counts as low
isLowConfidence_inclusive(cellList, cell) ==
  IF cell # 0 THEN cellList[cell].confianza <= LowConfidenceBelow ELSE FALSE

\* desktop table: cell ? cell.confianza < 0.85 : false
isLowConfidence(cellList, cell) ==
  IF cell # 0 THEN cellList[cell].confianza < LowConfidenceBelow ELSE FALSE

\* renderMobileInput(row, colIndex, ...): the same test on row.columns[colIndex]
renderMobileInput_isLowConfidence(cellList, row, colIndex) ==
  LET cell == row[colIndex]
  IN IF cell # 0 THEN cellList[cell].confianza < LowConfidenceBelow ELSE FALSE

(***************************************************************************)
(* Edit Mutator (handleValueChange).                                        *)
(***************************************************************************)
\* prev.findIndex(...): the first matching index, or 0 for -1
findIndex(cellList, rowIndex, colIndex) ==
  LET hits == {k \in 1..Len(cellList) :
                 RowOf(cellList[k]) = rowIndex /\ Number(cellList[k].col) = colIndex}
  IN IF hits = {} THEN 0 ELSE CHOOSE h \in hits : \A g \in hits : h <= g

\* mutant: an update rewrites the cell's label as the integer row
handleValueChange_normalizes(prev, rowIndex, colIndex, newValue) ==
  LET existingIndex == findIndex(prev, rowIndex, colIndex)
  IN IF existingIndex > 0
     THEN [prev EXCEPT ![existingIndex].valor = newValue,
                       ![existingIndex].fila = NumLabel(rowIndex)]
     ELSE Append(prev, Cell(NumLabel(rowIndex), colIndex, newValue,
                            FullConfidence, Undefined))

\* mutant: a created cell gets no confidence
handleValueChange_zeroConfidence(prev, rowIndex, colIndex, newValue) ==
  LET existingIndex == findIndex(prev, rowIndex, colIndex)
  IN IF existingIndex > 0
     THEN [prev EXCEPT ![existingIndex].valor = newValue]
     ELSE Append(prev, Cell(NumLabel(rowIndex), colIndex, newValue, 0, Undefined))

\* mutant: the updater always appends
handleValueChange_alwaysAppends(prev, rowIndex, colIndex, newValue) ==
  Append(prev, Cell(NumLabel(rowIndex), colIndex, newValue, FullConfidence,
                    Undefined))

\* the updater passed to setCells
handleValueChange(prev, rowIndex, colIndex, newValue) ==
  LET existingIndex == findIndex(prev, rowIndex, colIndex)
  IN IF existingIndex > 0
     THEN [prev EXCEPT ![existingIndex].valor = newValue]
     ELSE Append(prev, Cell(NumLabel(rowIndex), colIndex, newValue,
                            FullConfidence, Undefined))

(***************************************************************************)
(* Feedback payload (handleSendFeedback).                                   *)
(***************************************************************************)
\* x || "" for an optional string
OrEmpty(x) == IF x = Undefined THEN "" ELSE x

\* the correction record of one current cell
correction(currentCell, snapshot) ==
  LET rIndex == RowOf(currentCell)
      cIndex == Number(currentCell.col)
      found == findIndex(snapshot, rIndex, cIndex)
  IN [ref_id |-> OrEmpty(currentCell.ref_id),
      valor_corregido |-> currentCell.valor,
      fila |-> rIndex,
      col |-> cIndex,
      valor_original |-> IF found > 0 THEN snapshot[found].valor ELSE ""]

\* mutant: the filter drops the records without ref_id
corrections_filtered(cellList, snapshot) ==
  LET HasRef(cell) == OrEmpty(cell.ref_id) # ""
      kept == SelectSeq(cellList, HasRef)
  IN [k \in 1..Len(kept) |-> correction(kept[k], snapshot)]

\* cells.map(...) followed by the filter that keeps every record
corrections(cellList, snapshot) ==
  [k \in 1..Len(cellList) |-> correction(cellList[k], snapshot)]

(***************************************************************************)
(* State.                                                                   *)
(***************************************************************************)
VARIABLES
  \* App (App.tsx)
  user,           \* the logged-in user's role, or "none" for null
  currentModule,  \* "ocr" or "dashboard"
  view,           \* "upload", "editor" or "success"
  selectedFile,   \* the chosen file, or NoFile for null
  isUploading,
  uploadError,    \* the message shown, or "none" for null
  ocrData,        \* the loaded document, or NoDoc for null
  notification,   \* the toast, or NoNotification for null
  apiUrl,         \* the base URL App sends to
  isInitializing, \* the loading screen shows: the startup probe is in flight
  storedUrl,      \* localStorage['bluegrid_api_url'], or NoUrl for null
  isSettingsOpen, \* App's flag for the settings modal
  \* SettingsModal (the mounted instance; its initial values when unmounted)
  urlInput,       \* the text of the URL input, or NoUrl while unmounted
  status,         \* "idle", "testing", "success" or "error"
  probes,         \* GET <url>/ requests of handleSmokeTest in flight
  \* MatrixEditor (the mounted instance; its initial values when unmounted)
  cells,          \* the flat cell list
  originalCells,  \* the Snapshot
  isSaving,
  isTraining,
  \* the network and the server
  uploads,        \* POST /api/v1/registros requests in flight
  saves,          \* PUT /api/v1/registros/{id}/validacion requests in flight
  feedbacks,      \* POST /api/v1/training/feedback requests in flight
  nextId,         \* the id the server gives the next document
  crashed,        \* a render threw: React unmounted the whole tree
  \* a call of parseRowIndex on its own
  rowLabel,       \* the argument of the call
  parsed,         \* the outcome of the call
  pc              \* "call" before the call, "done" after it

appVars == <<user, currentModule, view, selectedFile, isUploading, uploadError,
             ocrData, notification>>

editorVars == <<cells, originalCells, isSaving, isTraining>>

netVars == <<uploads, saves, feedbacks, nextId, crashed>>

parseVars == <<rowLabel, parsed, pc>>

urlVars == <<apiUrl, isInitializing, storedUrl>>

modalVars == <<isSettingsOpen, urlInput, status, probes>>

vars == <<appVars, editorVars, netVars, parseVars, urlVars, modalVars>>

\* a base URL: its text without trailing slashes, and their number
Url(base, slashes) == [base |-> base, slashes |-> slashes]

\* url.replace(/\/+$/, '')
cleanUrl(url) == [url EXCEPT !.slashes = 0]

DEFAULT_API_URL == Url("https://default", 0)

\* localStorage.getItem(...) of a key that was never set
NoUrl == Url("<null>", 0)

\* localStorage.getItem('bluegrid_api_url') || ""
storedOrEmpty(stored) == IF stored = NoUrl THEN Url("", 0) ELSE stored

\* what the operator types into the settings modal's URL input
TypedUrls == {Url("https://other", 0), Url("https://other", 1)}

\* RBAC gate: canViewSettings
canViewSettings(u) == u = "admin"

NoFile == "<null>"

Files == {"a.jpg", "b.jpg"}

NoNotification == [type |-> "none", message |-> ""]

\* the roles that log in here: an admin reaches every module
Roles == {"admin"}

\* RBAC gate: canViewDashboard
canViewDashboard(u) == u = "admin" \/ u = "supervisor"

\* the render condition of <MatrixEditor>: past the login screen, in the OCR
\* module, view === 'editor' && ocrData
MountedIn(u, m, v, d) == u # "none" /\ m = "ocr" /\ v = "editor" /\ d # NoDoc

Mounted == ~crashed /\ MountedIn(user, currentModule, view, ocrData)

\* what tells one fetch call from another of its kind: the least number no
\* request in flight carries
FreeSlot(reqs) ==
  CHOOSE n \in 1..(Cardinality(reqs) + 1) :
    /\ \A req \in reqs : req.slot # n
    /\ \A m \in 1..(n - 1) : \E req \in reqs : req.slot = m

\* the number of requests in flight
InFlight == Cardinality(uploads) + Cardinality(saves) + Cardinality(feedbacks)

(***************************************************************************)
(* What the server may answer.                                              *)
(***************************************************************************)
Fila1 == StrLabel(<<"F", "i", "l", "a", " ", "1">>)

\* a string label in range, the same coordinate under a numeric label and
\* without ref_id, a row out of range, an unparseable label, a column out of
\* range, a missing label
ServerCells ==
  { Cell(Fila1, 0, "5", 84999, "R0_C0"),
    Cell(NumLabel(0), 0, "8", 85000, Undefined),
    Cell(NumLabel(7), 0, "8", 90000, "R7_C0"),
    Cell(StrLabel(<<"x">>), 1, "5", 60000, Undefined),
    Cell(Fila1, 5, "8", 90000, "R0_C5"),
    Cell(NullLabel, 0, "5", 60000, "R9_C0") }

\* the documents the server answers an upload with, under id i: the current
\* shape, the legacy shape, both, neither, and one the parser throws on
ServerDocs(i) ==
  LET a == Cell(Fila1, 0, "5", 84999, "R0_C0")
      b == Cell(NumLabel(7), 0, "8", 90000, "R7_C0")
      n == Cell(NullLabel, 0, "5", 60000, "R9_C0")
  IN { Doc(i, <<(<<a, b>>)>>, <<>>),
       Doc(i, <<>>, <<(<<b>>)>>),
       Doc(i, <<(<<a>>)>>, <<(<<b>>)>>),
       Doc(i, <<>>, <<>>),
       Doc(i, <<(<<n>>)>>, <<>>) }

\* how a request in flight may settle: "ok" is a 2xx answer; the others
\* fail: a fetch-level failure whose Error message contains "Failed to
\* fetch", one whose message does not, a non-2xx answer, and a non-2xx answer
\* whose body contains "Failed to fetch"
Failures == {"network", "network-other", "http", "http-fetch"}

\* an upload may also fail on a 2xx answer whose body is not JSON:
\* response.json() rejects
UploadFailures == Failures \cup {"unparseable"}

\* err.message.includes("Failed to fetch"), for the Error a failure raises
mentionsFetch(answer) == answer \in {"network", "http-fetch"}

\* the values a user types into a grid input, and the inputs typed into
EditValues == {"7", "X"}

EditCoords == {<<0, 0>>, <<4, 4>>}

(***************************************************************************)
(* Mounting and unmounting of the editor, which every App state change may  *)
(* cause.  The arguments are the values the editor's state and the request  *)
(* sets take if the mounted instance lives on; view', user', currentModule' *)
(* and ocrData' are set by the action.                                      *)
(***************************************************************************)
\* the requests of an instance that has been unmounted: its setState calls
\* are no-ops from now on
Orphaned(reqs) == {[r EXCEPT !.live = FALSE] : r \in reqs}

Rerender(c, o, sv, tr, S, F) ==
  \E was \in {Mounted},
     now \in {MountedIn(user', currentModule', view', ocrData')},
     fresh \in {InitialCells(ocrData')} :
    \E throws \in {now /\ ThrowsOn(fresh)} :
     IF now /\ (~was \/ ocrData' # ocrData)
     THEN \* the init effect runs (on mount, or because data changed)
          IF throws
          THEN /\ crashed' = TRUE
               /\ cells' = <<>> /\ originalCells' = <<>>
               /\ isSaving' = FALSE /\ isTraining' = FALSE
               /\ saves' = Orphaned(S) /\ feedbacks' = Orphaned(F)
          ELSE /\ crashed' = FALSE
               /\ cells' = fresh /\ originalCells' = JSONCopy(fresh)
               /\ isSaving' = (was /\ sv) /\ isTraining' = (was /\ tr)
               /\ saves' = S /\ feedbacks' = F
     ELSE IF now
     THEN /\ crashed' = FALSE
          /\ cells' = c /\ originalCells' = o
          /\ isSaving' = sv /\ isTraining' = tr
          /\ saves' = S /\ feedbacks' = F
     ELSE \* not rendered: an instance that was mounted is discarded
          /\ crashed' = FALSE
          /\ cells' = <<>> /\ originalCells' = <<>>
          /\ isSaving' = FALSE /\ isTraining' = FALSE
          /\ saves' = Orphaned(S) /\ feedbacks' = Orphaned(F)

\* an App state change that leaves the editor's own state and the requests
\* alone
RerenderSame == Rerender(cells, originalCells, isSaving, isTraining, saves, feedbacks)

Init ==
  /\ user = "none"
  /\ currentModule = "dashboard"
  /\ view = "upload"
  /\ selectedFile = NoFile
  /\ isUploading = FALSE
  /\ uploadError = "none"
  /\ ocrData = NoDoc
  /\ notification = NoNotification
  /\ cells = <<>>
  /\ originalCells = <<>>
  /\ isSaving = FALSE
  /\ isTraining = FALSE
  /\ uploads = {}
  /\ saves = {}
  /\ feedbacks = {}
  /\ nextId = 1
  /\ crashed = FALSE
  /\ rowLabel = NumLabel(0)
  /\ parsed = Returned(0)
  /\ pc = "idle"
  /\ apiUrl = DEFAULT_API_URL
  /\ isInitializing = TRUE
  /\ storedUrl = NoUrl
  /\ isSettingsOpen = FALSE
  /\ urlInput = NoUrl
  /\ status = "idle"
  /\ probes = {}

(***************************************************************************)
(* App: login, navigation, file selection, reset.                           *)
(***************************************************************************)
resetFlow ==
  /\ selectedFile' = NoFile
  /\ ocrData' = NoDoc
  /\ view' = "upload"

\* handleLogin with a known user name and the right password
handleLogin ==
  /\ ~crashed /\ ~isInitializing /\ user = "none"
  /\ \E role \in Roles :
       /\ user' = role
       /\ currentModule' = IF role = "buzo" THEN "ocr" ELSE "dashboard"
       \* <SettingsModal> mounts for an admin: useState(currentUrl)
       /\ urlInput' = IF canViewSettings(role) THEN apiUrl ELSE NoUrl
  /\ UNCHANGED <<view, selectedFile, isUploading, uploadError, ocrData,
                 notification, uploads, nextId, parseVars, urlVars,
                 isSettingsOpen, status, probes>>
  /\ RerenderSame

handleLogout ==
  /\ ~crashed /\ user # "none"
  /\ user' = "none"
  /\ resetFlow
  \* <SettingsModal> unmounts with the main layout
  /\ urlInput' = NoUrl
  /\ status' = "idle"
  /\ probes' = Orphaned(probes)
  /\ UNCHANGED <<currentModule, isUploading, uploadError, notification,
                 uploads, nextId, parseVars, urlVars, isSettingsOpen>>
  /\ RerenderSame

\* the sidebar's module buttons
setCurrentModule ==
  /\ ~crashed /\ user # "none"
  /\ \E m \in {"ocr", "dashboard"} :
       /\ m # currentModule
       /\ m = "dashboard" => canViewDashboard(user)
       /\ currentModule' = m
  /\ UNCHANGED <<user, view, selectedFile, isUploading, uploadError, ocrData,
                 notification, uploads, nextId, parseVars, urlVars, modalVars>>
  /\ RerenderSame

\* a file chosen in the upload view's input, or through the mobile menu,
\* whose button shows while no file is selected
handleFileSelect ==
  /\ ~crashed /\ user # "none"
  /\ (currentModule = "ocr" /\ view = "upload") \/ selectedFile = NoFile
  /\ \E f \in Files : selectedFile' = f
  /\ uploadError' = "none"
  /\ currentModule' = "ocr"
  /\ view' = "upload"
  /\ UNCHANGED <<user, isUploading, ocrData, notification, uploads, nextId,
                 parseVars, urlVars, modalVars>>
  /\ RerenderSame

\* Descartar in the editor, Nueva Planilla in the success view
resetFlowClick ==
  /\ ~crashed /\ user # "none" /\ currentModule = "ocr"
  /\ Mounted \/ view = "success"
  /\ resetFlow
  /\ UNCHANGED <<user, currentModule, isUploading, uploadError, notification,
                 uploads, nextId, parseVars, urlVars, modalVars>>
  /\ RerenderSame

\* the toast's timer, or its close button
closeNotification ==
  /\ ~crashed /\ notification # NoNotification
  /\ notification' = NoNotification
  /\ UNCHANGED <<user, currentModule, view, selectedFile, isUploading,
                 uploadError, ocrData, editorVars, netVars, parseVars, urlVars, modalVars>>

(***************************************************************************)
(* App: upload.                                                             *)
(***************************************************************************)
\* handleUpload up to its fetch; the button is disabled while isUploading
\* or with no file selected
handleUpload ==
  /\ ~crashed /\ user # "none" /\ currentModule = "ocr" /\ view = "upload"
  /\ ~isUploading /\ selectedFile # NoFile
  /\ isUploading' = TRUE
  /\ uploadError' = "none"
  /\ uploads' = uploads \cup
       {[slot |-> FreeSlot(uploads), url |-> apiUrl, file |-> selectedFile, answer |-> "pending",
         data |-> NoDoc]}
  /\ UNCHANGED <<user, currentModule, view, selectedFile, ocrData,
                 notification, editorVars, saves, feedbacks, nextId, crashed,
                 parseVars, urlVars, modalVars>>

\* the network and the server settle an upload: a new document, or a failure
uploadSettles ==
  /\ \E req \in uploads :
       /\ req.answer = "pending"
       /\ \/ /\ nextId <= MaxDocs
             /\ \E data \in ServerDocs(nextId) :
                  uploads' = (uploads \ {req}) \cup
                    {[req EXCEPT !.answer = "ok", !.data = data]}
             /\ nextId' = nextId + 1
          \/ /\ \E failure \in UploadFailures :
                  uploads' = (uploads \ {req}) \cup {[req EXCEPT !.answer = failure]}
             /\ nextId' = nextId
  /\ UNCHANGED <<appVars, editorVars, saves, feedbacks, crashed, parseVars, urlVars, modalVars>>

\* handleUpload after a 2xx answer
uploadSucceeds ==
  /\ ~crashed
  /\ \E req \in uploads :
       /\ req.answer = "ok"
       /\ uploads' = uploads \ {req}
       /\ ocrData' = req.data
  /\ view' = "editor"
  /\ isUploading' = FALSE
  /\ UNCHANGED <<user, currentModule, selectedFile, uploadError, notification,
                 nextId, parseVars, urlVars, modalVars>>
  /\ RerenderSame

\* the message handleUpload's catch block shows
uploadDisplayMsg(answer) ==
  IF mentionsFetch(answer)
  THEN "Error de conexion. Verifica que el Colab este activo y la URL sea correcta."
  ELSE IF answer \in {"network-other", "unparseable"} THEN "<err.message>"
  ELSE "Error Servidor (<status>): <errorMessage>"

\* mutant: the catch block is not followed by the finally block
uploadFails_noFinally ==
  /\ ~crashed
  /\ \E req \in uploads :
       /\ req.answer \in UploadFailures
       /\ uploads' = uploads \ {req}
       /\ uploadError' = uploadDisplayMsg(req.answer)
  /\ isUploading' = isUploading
  /\ UNCHANGED <<user, currentModule, view, selectedFile, ocrData,
                 notification, editorVars, saves, feedbacks, nextId, crashed,
                 parseVars, urlVars, modalVars>>

\* handleUpload after a failed fetch, a non-2xx answer or a body that is not
\* JSON
uploadFails ==
  /\ ~crashed
  /\ \E req \in uploads :
       /\ req.answer \in UploadFailures
       /\ uploads' = uploads \ {req}
       /\ uploadError' = uploadDisplayMsg(req.answer)
  /\ isUploading' = FALSE
  /\ UNCHANGED <<user, currentModule, view, selectedFile, ocrData,
                 notification, editorVars, saves, feedbacks, nextId, crashed,
                 parseVars, urlVars, modalVars>>

(***************************************************************************)
(* MatrixEditor: edit, confirm, feedback.                                   *)
(***************************************************************************)
\* mutant: the Snapshot shares its cell objects with the flat list
onChange_sharedSnapshot ==
  /\ ~crashed /\ Mounted
  /\ \E rc \in EditCoords, v \in EditValues :
       \E newCells \in {handleValueChange(cells, rc[1], rc[2], v)} :
         /\ Len(newCells) > Len(cells) => Len(newCells) <= MaxList
         /\ cells' = newCells
         /\ originalCells' = SubSeq(newCells, 1, Len(originalCells))
  /\ UNCHANGED <<appVars, isSaving, isTraining, netVars, parseVars, urlVars, modalVars>>

\* a grid input's onChange: handleValueChange(row.index, colIndex, value)
onChange ==
  /\ ~crashed /\ Mounted
  /\ \E rc \in EditCoords, v \in EditValues :
       \E newCells \in {handleValueChange(cells, rc[1], rc[2], v)} :
         /\ Len(newCells) > Len(cells) => Len(newCells) <= MaxList
         /\ cells' = newCells
  /\ UNCHANGED <<appVars, originalCells, isSaving, isTraining, netVars,
                 parseVars, urlVars, modalVars>>

\* mutant: the request is addressed to the first document
handleConfirm_firstId ==
  /\ ~crashed /\ Mounted /\ ~isSaving
  /\ isSaving' = TRUE
  /\ saves' = saves \cup
       {[slot |-> FreeSlot(saves), live |-> TRUE, url |-> apiUrl, id |-> 1, cambios |-> cells,
         answer |-> "pending"]}
  /\ UNCHANGED <<appVars, cells, originalCells, isTraining, uploads, feedbacks,
                 nextId, crashed, parseVars, urlVars, modalVars>>

\* mutant: confirm sends the cells of the visible grid only
handleConfirm_visibleOnly ==
  /\ ~crashed /\ Mounted /\ ~isSaving
  /\ isSaving' = TRUE
  /\ LET Visible(cell) == RowOf(cell) \in GridRowIndexes
     IN saves' = saves \cup
          {[slot |-> FreeSlot(saves), live |-> TRUE, url |-> apiUrl, id |-> ocrData.id,
            cambios |-> SelectSeq(cells, Visible), answer |-> "pending"]}
  /\ UNCHANGED <<appVars, cells, originalCells, isTraining, uploads, feedbacks,
                 nextId, crashed, parseVars, urlVars, modalVars>>

\* handleConfirm up to the fetch of handleValidationSave (onSave); the
\* button is disabled while isSaving
handleConfirm ==
  /\ ~crashed /\ Mounted /\ ~isSaving
  /\ isSaving' = TRUE
  /\ saves' = saves \cup
       {[slot |-> FreeSlot(saves), live |-> TRUE, url |-> apiUrl, id |-> ocrData.id, cambios |-> cells,
         answer |-> "pending"]}
  /\ UNCHANGED <<appVars, cells, originalCells, isTraining, uploads, feedbacks,
                 nextId, crashed, parseVars, urlVars, modalVars>>

\* the network and the server settle a validation commit
validationSettles ==
  /\ \E req \in saves : \E answer \in {"ok"} \cup Failures :
       /\ req.answer = "pending"
       /\ saves' = (saves \ {req}) \cup {[req EXCEPT !.answer = answer]}
  /\ UNCHANGED <<appVars, editorVars, uploads, feedbacks, nextId, crashed,
                 parseVars, urlVars, modalVars>>

\* handleValidationSave after a 2xx answer, then handleConfirm's finally
validationSucceeds ==
  /\ ~crashed
  /\ notification' =
       [type |-> "success", message |-> "Matriz validada y guardada correctamente"]
  /\ view' = "success"
  /\ UNCHANGED <<user, currentModule, selectedFile, isUploading, uploadError,
                 ocrData, uploads, nextId, parseVars, urlVars, modalVars>>
  /\ \E req \in saves :
       /\ req.answer = "ok"
       /\ Rerender(cells, originalCells, isSaving /\ ~req.live, isTraining,
                   saves \ {req}, feedbacks)

\* the message handleValidationSave's catch block shows
validationDisplayMsg(answer) ==
  IF mentionsFetch(answer) THEN "Error al guardar: Error de conexion."
  ELSE IF answer \in {"network", "network-other"} THEN "Error al guardar: <err.message>"
  ELSE "Error al guardar: Fallo validacion (<status>): <errText>"

\* mutant: the catch block goes on to the success view
validationFails_toSuccess ==
  /\ ~crashed
  /\ view' = "success"
  /\ UNCHANGED <<user, currentModule, selectedFile, isUploading, uploadError,
                 ocrData, uploads, nextId, parseVars, urlVars, modalVars>>
  /\ \E req \in saves :
       /\ req.answer \in Failures
       /\ notification' =
            [type |-> "error", message |-> validationDisplayMsg(req.answer)]
       /\ Rerender(cells, originalCells, isSaving /\ ~req.live, isTraining,
                   saves \ {req}, feedbacks)

\* mutant: handleConfirm without its finally block
validationFails_noFinally ==
  /\ ~crashed
  /\ \E req \in saves :
       /\ req.answer \in Failures
       /\ saves' = saves \ {req}
       /\ notification' =
            [type |-> "error", message |-> validationDisplayMsg(req.answer)]
  /\ UNCHANGED <<user, currentModule, view, selectedFile, isUploading,
                 uploadError, ocrData, cells, originalCells, isSaving,
                 isTraining, uploads, feedbacks, nextId, crashed, parseVars, urlVars, modalVars>>

\* handleValidationSave after a failed fetch or a non-2xx answer, then
\* handleConfirm's finally
validationFails ==
  /\ ~crashed
  /\ \E req \in saves :
       /\ req.answer \in Failures
       /\ saves' = saves \ {req}
       /\ isSaving' = (isSaving /\ ~req.live)
       /\ notification' =
            [type |-> "error", message |-> validationDisplayMsg(req.answer)]
  /\ UNCHANGED <<user, currentModule, view, selectedFile, isUploading,
                 uploadError, ocrData, cells, originalCells, isTraining,
                 uploads, feedbacks, nextId, crashed, parseVars, urlVars, modalVars>>

\* handleSendFeedback up to its fetch; the button is disabled while
\* isTraining
handleSendFeedback ==
  /\ ~crashed /\ Mounted /\ ~isTraining
  /\ isTraining' = TRUE
  /\ feedbacks' = feedbacks \cup
       {[slot |-> FreeSlot(feedbacks), live |-> TRUE,
         url |-> storedOrEmpty(storedUrl),
         correcciones |-> corrections(cells, originalCells),
         answer |-> "pending"]}
  /\ UNCHANGED <<appVars, cells, originalCells, isSaving, uploads, saves,
                 nextId, crashed, parseVars, urlVars, modalVars>>

\* the network and the server settle a feedback request
feedbackSettles ==
  /\ \E req \in feedbacks : \E answer \in {"ok"} \cup Failures :
       /\ req.answer = "pending"
       /\ feedbacks' = (feedbacks \ {req}) \cup {[req EXCEPT !.answer = answer]}
  /\ UNCHANGED <<appVars, editorVars, uploads, saves, nextId, crashed,
                 parseVars, urlVars, modalVars>>

\* mutant: a sent feedback makes the corrected list the new Snapshot
feedbackSucceeds_newSnapshot ==
  /\ ~crashed
  /\ \E req \in feedbacks :
       /\ req.answer = "ok"
       /\ feedbacks' = feedbacks \ {req}
       /\ isTraining' = (isTraining /\ ~req.live)
       /\ originalCells' = IF req.live THEN cells ELSE originalCells
  /\ notification' =
       [type |-> "success", message |-> "Feedback enviado correctamente (ID Ref)"]
  /\ UNCHANGED <<user, currentModule, view, selectedFile, isUploading,
                 uploadError, ocrData, cells, isSaving, uploads, saves, nextId,
                 crashed, parseVars, urlVars, modalVars>>

\* handleSendFeedback after a 2xx answer
feedbackSucceeds ==
  /\ ~crashed
  /\ \E req \in feedbacks :
       /\ req.answer = "ok"
       /\ feedbacks' = feedbacks \ {req}
       /\ isTraining' = (isTraining /\ ~req.live)
  /\ notification' =
       [type |-> "success", message |-> "Feedback enviado correctamente (ID Ref)"]
  /\ UNCHANGED <<user, currentModule, view, selectedFile, isUploading,
                 uploadError, ocrData, cells, originalCells, isSaving, uploads,
                 saves, nextId, crashed, parseVars, urlVars, modalVars>>

\* handleSendFeedback after a failed fetch or a non-2xx answer
feedbackFails ==
  /\ ~crashed
  /\ \E req \in feedbacks :
       /\ req.answer \in Failures
       /\ feedbacks' = feedbacks \ {req}
       /\ isTraining' = (isTraining /\ ~req.live)
  /\ notification' =
       [type |-> "error", message |-> "Error al enviar feedback: <err.message>"]
  /\ UNCHANGED <<user, currentModule, view, selectedFile, isUploading,
                 uploadError, ocrData, cells, originalCells, isSaving, uploads,
                 saves, nextId, crashed, parseVars, urlVars, modalVars>>

(***************************************************************************)
(* App: the base URL.                                                       *)
(***************************************************************************)
\* initAutoConnection after a 2xx answer to GET <DEFAULT_API_URL>/; the
\* loading screen shows until it ends
initAutoConnectionOk ==
  /\ isInitializing
  /\ apiUrl' = cleanUrl(DEFAULT_API_URL)
  /\ storedUrl' = cleanUrl(DEFAULT_API_URL)
  /\ view' = "upload"
  /\ isInitializing' = FALSE
  /\ UNCHANGED <<user, currentModule, selectedFile, isUploading, uploadError,
                 ocrData, notification, editorVars, netVars, parseVars,
                 modalVars>>

\* initAutoConnection after a failed fetch or a non-2xx answer
initAutoConnectionFails ==
  /\ isInitializing
  /\ apiUrl' = cleanUrl(DEFAULT_API_URL)
  /\ isInitializing' = FALSE
  /\ UNCHANGED <<appVars, storedUrl, editorVars, netVars, parseVars,
                 modalVars>>

\* SettingsModal.handleSave with the text input in the URL field, the
\* confirm() it may ask answered with OK: App.handleSaveUrl(cleanUrl), and
\* the modal's effect, which copies a changed currentUrl into the field
handleSave(input) ==
  /\ ~crashed /\ ~isInitializing /\ canViewSettings(user)
  /\ apiUrl' = cleanUrl(input)
  /\ storedUrl' = cleanUrl(input)
  /\ isSettingsOpen' = FALSE
  /\ view' = "upload"
  /\ urlInput' = IF cleanUrl(input) # apiUrl THEN cleanUrl(input) ELSE input
  /\ UNCHANGED <<user, currentModule, selectedFile, isUploading, uploadError,
                 ocrData, notification, uploads, nextId, parseVars,
                 isInitializing, status, probes>>
  /\ RerenderSame

\* a visit to the settings modal as App sees it: the modal opened, the URL
\* left as it is or another one typed, and Guardar pressed
handleSave_typed ==
  \E typed \in TypedUrls \cup {apiUrl} : handleSave(typed)

(***************************************************************************)
(* The settings modal, step by step.  <SettingsModal> is rendered for an    *)
(* admin past the login screen and returns null unless isOpen; its state    *)
(* lives as long as it is rendered.                                         *)
(***************************************************************************)
\* <SettingsModal> is rendered
ModalMounted == ~crashed /\ ~isInitializing /\ canViewSettings(user)

\* the modal is on the screen
ModalShown == ModalMounted /\ isSettingsOpen

\* the "Conexion API" buttons: setIsSettingsOpen(true)
openSettings ==
  /\ ModalMounted
  /\ isSettingsOpen' = TRUE
  /\ UNCHANGED <<appVars, editorVars, netVars, parseVars, urlVars, urlInput,
                 status, probes>>

\* the modal's close button: onClose
onClose ==
  /\ ModalShown
  /\ isSettingsOpen' = FALSE
  /\ UNCHANGED <<appVars, editorVars, netVars, parseVars, urlVars, urlInput,
                 status, probes>>

\* the URL input's onChange
urlInputChange ==
  /\ ModalShown
  /\ \E typed \in TypedUrls \cup {DEFAULT_API_URL} : urlInput' = typed
  /\ status' = "idle"
  /\ UNCHANGED <<appVars, editorVars, netVars, parseVars, urlVars,
                 isSettingsOpen, probes>>

\* handleSmokeTest up to its fetch; Probar Conexion is disabled while
\* status is 'testing'
handleSmokeTest ==
  /\ ModalShown
  /\ status # "testing"
  /\ status' = "testing"
  /\ probes' = probes \cup
       {[slot |-> FreeSlot(probes), live |-> TRUE, url |-> cleanUrl(urlInput),
         answer |-> "pending"]}
  /\ UNCHANGED <<appVars, editorVars, netVars, parseVars, urlVars,
                 isSettingsOpen, urlInput>>

\* the network and the server settle a probe
smokeTestSettles ==
  /\ \E req \in probes :
       /\ req.answer = "pending"
       /\ \E answer \in {"ok", "http", "network"} :
            probes' = (probes \ {req}) \cup {[req EXCEPT !.answer = answer]}
  /\ UNCHANGED <<appVars, editorVars, netVars, parseVars, urlVars,
                 isSettingsOpen, urlInput, status>>

\* handleSmokeTest after a 2xx answer
smokeTestSucceeds ==
  /\ ~crashed
  /\ \E req \in probes :
       /\ req.answer = "ok"
       /\ probes' = probes \ {req}
       /\ status' = IF req.live THEN "success" ELSE status
  /\ UNCHANGED <<appVars, editorVars, netVars, parseVars, urlVars,
                 isSettingsOpen, urlInput>>

\* handleSmokeTest after a non-2xx answer or a failed fetch
smokeTestFails ==
  /\ ~crashed
  /\ \E req \in probes :
       /\ req.answer \in {"http", "network"}
       /\ probes' = probes \ {req}
       /\ status' = IF req.live THEN "error" ELSE status
  /\ UNCHANGED <<appVars, editorVars, netVars, parseVars, urlVars,
                 isSettingsOpen, urlInput>>

\* the modal's Guardar
handleSaveClick == ModalShown /\ handleSave(urlInput)

\* opening the app, logging in and the settings modal
SettingsNext ==
  \/ initAutoConnectionOk
  \/ initAutoConnectionFails
  \/ handleLogin
  \/ handleLogout
  \/ openSettings
  \/ onClose
  \/ urlInputChange
  \/ (Cardinality(probes) < MaxRacing /\ handleSmokeTest)
  \/ smokeTestSettles
  \/ smokeTestSucceeds
  \/ smokeTestFails
  \/ handleSaveClick

SpecSettings == Init /\ [][SettingsNext]_vars

\* the whole workflow, with a backend that answers the startup probe and an
\* operator who leaves the settings alone
Next ==
  \/ initAutoConnectionOk
  \/ handleLogin
  \/ handleLogout
  \/ setCurrentModule
  \/ handleFileSelect
  \/ resetFlowClick
  \/ closeNotification
  \/ (InFlight < MaxInFlight /\ handleUpload)
  \/ uploadSettles
  \/ uploadSucceeds
  \/ uploadFails
  \/ onChange
  \/ (InFlight < MaxInFlight /\ handleConfirm)
  \/ validationSettles
  \/ validationSucceeds
  \/ validationFails
  \/ (InFlight < MaxInFlight /\ handleSendFeedback)
  \/ feedbackSettles
  \/ feedbackSucceeds
  \/ feedbackFails

Spec == Init /\ [][Next]_vars

(***************************************************************************)
(* Every handler of App and MatrixEditor, with a backend that has one       *)
(* document to answer with and one way to fail, and a user who has one file *)
(* and types one value into one grid input.  A visit to the settings modal  *)
(* is one step here, its Guardar; SpecSettings has the modal step by step.  *)
(***************************************************************************)
\* the answers of that backend
FewAnswers(reqs) == \A req \in reqs : req.answer \in {"pending", "ok", "http"}

ConfigNext ==
  \/ initAutoConnectionOk
  \/ initAutoConnectionFails
  \/ (handleSave_typed /\ urlInput' = apiUrl')
  \/ handleLogin
  \/ handleLogout
  \/ setCurrentModule
  \/ (handleFileSelect /\ selectedFile' = "a.jpg")
  \/ resetFlowClick
  \/ closeNotification
  \/ (InFlight < MaxRacing /\ handleUpload)
  \/ (/\ uploadSettles
      /\ FewAnswers(uploads')
      /\ \A req \in uploads' :
           req.answer = "ok" => req.data.matriz = <<>> /\ Len(InitialCells(req.data)) = 2)
  \/ uploadSucceeds
  \/ uploadFails
  \/ (onChange /\ cells' = handleValueChange(cells, 0, 0, "7"))
  \/ (InFlight < MaxRacing /\ handleConfirm)
  \/ (validationSettles /\ FewAnswers(saves'))
  \/ validationSucceeds
  \/ validationFails
  \/ (InFlight < MaxRacing /\ handleSendFeedback)
  \/ (feedbackSettles /\ FewAnswers(feedbacks'))
  \/ feedbackSucceeds
  \/ feedbackFails

SpecConfig == Init /\ [][ConfigNext]_vars

(***************************************************************************)
(* The three kinds of request and the pending flag of each, with every way  *)
(* an upload can fail and one small document, and nothing else but what     *)
(* unmounts the editor.  The continuation of a fetch runs once the fetch    *)
(* has settled: the event loop does not starve it.                          *)
(***************************************************************************)
PendingNext ==
  \/ initAutoConnectionOk
  \/ handleLogin
  \/ handleLogout
  \/ (handleFileSelect /\ selectedFile' = "a.jpg")
  \/ resetFlowClick
  \/ (InFlight < MaxRacing /\ handleUpload)
  \/ (/\ uploadSettles
      /\ \A req \in uploads' :
           req.answer = "ok" => req.data.matriz = <<>> /\ Len(InitialCells(req.data)) = 2)
  \/ uploadSucceeds
  \/ uploadFails
  \/ (InFlight < MaxRacing /\ handleConfirm)
  \/ validationSettles
  \/ validationSucceeds
  \/ validationFails
  \/ (InFlight < MaxRacing /\ handleSendFeedback)
  \/ feedbackSettles
  \/ feedbackSucceeds
  \/ feedbackFails

SpecPending ==
  /\ Init /\ [][PendingNext]_vars
  /\ WF_vars(uploadSucceeds) /\ WF_vars(uploadFails)
  /\ WF_vars(validationSucceeds) /\ WF_vars(validationFails)
  /\ WF_vars(feedbackSucceeds) /\ WF_vars(feedbackFails)

(***************************************************************************)
(* One editor session on its own: MatrixEditor as App renders it after an   *)
(* upload by the user "admin", for every document whose matriz has up to     *)
(* MaxCells server cells.                                                   *)
(***************************************************************************)
EditorStart(m) ==
  /\ user = "admin"
  /\ currentModule = "ocr"
  /\ view = "editor"
  /\ selectedFile = "a.jpg"
  /\ isUploading = FALSE
  /\ uploadError = "none"
  /\ ocrData = Doc(1, <<m>>, <<>>)
  /\ crashed = ThrowsOn(m)
  /\ cells = IF ThrowsOn(m) THEN <<>> ELSE InitialCells(Doc(1, <<m>>, <<>>))
  /\ originalCells = IF ThrowsOn(m) THEN <<>> ELSE JSONCopy(InitialCells(Doc(1, <<m>>, <<>>)))
  /\ notification = NoNotification
  /\ isSaving = FALSE
  /\ isTraining = FALSE
  /\ uploads = {}
  /\ saves = {}
  /\ feedbacks = {}
  /\ nextId = 2
  /\ rowLabel = NumLabel(0)
  /\ parsed = Returned(0)
  /\ pc = "idle"
  /\ apiUrl = DEFAULT_API_URL
  /\ isInitializing = FALSE
  /\ storedUrl = DEFAULT_API_URL
  /\ isSettingsOpen = FALSE
  /\ urlInput = DEFAULT_API_URL
  /\ status = "idle"
  /\ probes = {}

EditorInit ==
  \E k \in 0..MaxCells : \E m \in [1..k -> ServerCells] : EditorStart(m)

EditorNext ==
  \/ onChange
  \/ (InFlight < MaxInFlight /\ handleConfirm)
  \/ validationSettles
  \/ validationSucceeds
  \/ validationFails
  \/ (InFlight < MaxInFlight /\ handleSendFeedback)
  \/ feedbackSettles
  \/ feedbackSucceeds
  \/ feedbackFails
  \/ resetFlowClick
  \/ closeNotification

SpecEditor == EditorInit /\ [][EditorNext]_vars

(***************************************************************************)
(* The edits of one editor session on their own: sequences of setValue      *)
(* calls on every document of SpecEditor.                                   *)
(***************************************************************************)
EditsNext == onChange

SpecEdits == EditorInit /\ [][EditsNext]_vars

(***************************************************************************)
(* One editor session on a document that fills the grid: a cell at each of  *)
(* the 25 grid coordinates, and one more in a row below the grid.           *)
(***************************************************************************)
FullGridMatriz ==
  [k \in 1..(FIXED_ROW_COUNT * (LAST_COL + 1) + 1) |->
     Cell(NumLabel((k - 1) \div (LAST_COL + 1)), (k - 1) % (LAST_COL + 1),
          "5", 90000, Undefined)]

FullGridInit == EditorStart(FullGridMatriz)

SpecFullGrid == FullGridInit /\ [][EditorNext]_vars

(***************************************************************************)
(* The row-label parser on its own: every label up to MaxLen characters,    *)
(* a few numbers, and a missing label.                                      *)
(***************************************************************************)
IsLabelInput(l) ==
  \/ \E k \in 0..MaxLen : \E text \in [1..k -> Alphabet] : l = StrLabel(text)
  \/ \E k \in {-1, 0, 3, 7} : l = NumLabel(k)
  \/ l = NullLabel

ParseInit ==
  /\ IsLabelInput(rowLabel)
  /\ parsed = Returned(0)
  /\ pc = "call"
  /\ user = "none" /\ currentModule = "dashboard" /\ view = "upload"
  /\ selectedFile = NoFile /\ isUploading = FALSE /\ uploadError = "none"
  /\ ocrData = NoDoc /\ notification = NoNotification
  /\ cells = <<>> /\ originalCells = <<>>
  /\ isSaving = FALSE /\ isTraining = FALSE
  /\ uploads = {} /\ saves = {} /\ feedbacks = {} /\ nextId = 1
  /\ crashed = FALSE
  /\ apiUrl = DEFAULT_API_URL /\ isInitializing = TRUE /\ storedUrl = NoUrl
  /\ isSettingsOpen = FALSE /\ urlInput = NoUrl /\ status = "idle"
  /\ probes = {}

\* the call parseRowIndex(rowLabel)
CallParseRowIndex ==
  /\ pc = "call"
  /\ parsed' = parseRowIndex(rowLabel)
  /\ pc' = "done"
  /\ UNCHANGED <<rowLabel, appVars, editorVars, netVars, urlVars, modalVars>>

ParseNext == CallParseRowIndex

SpecParse == ParseInit /\ [][ParseNext]_vars

(***************************************************************************)
(* Properties.                                                              *)
(***************************************************************************)
\* the parsed row index of every cell of a list
Rows(cellList) == [k \in 1..Len(cellList) |-> RowOf(cellList[k])]

\* the cells of a list that parse to the coordinate (r, c), given the
\* parsed row indexes of the list
AtRows(rows, cellList, r, c) ==
  {k \in 1..Len(cellList) : rows[k] = r /\ Number(cellList[k].col) = c}

\* the cells of a list that parse to the coordinate (r, c)
At(cellList, r, c) == AtRows(Rows(cellList), cellList, r, c)

\* C1: the grid built from the flat list has exactly the rows 0..4, each
\* with exactly the columns 0..4; a position (r, c) is null or refers to a
\* cell of the list that parses to (r, c), and it is null only if no cell of
\* the list parses to (r, c).
C1_GridIsDense ==
  Mounted =>
    \A grid \in {gridRows(cells)}, rows \in {Rows(cells)} :
       /\ DOMAIN grid = 0..4
       /\ \A r \in DOMAIN grid :
            /\ DOMAIN grid[r] = 0..4
            /\ \A c \in DOMAIN grid[r] :
                 /\ grid[r][c] \in 0..Len(cells)
                 /\ grid[r][c] # 0 => grid[r][c] \in AtRows(rows, cells, r, c)
                 /\ grid[r][c] = 0 => AtRows(rows, cells, r, c) = {}

\* a list with an out-of-range cell, displayed after an edit added a cell
C1_Witness ==
  /\ Mounted
  /\ \E k \in 1..Len(cells) : RowOf(cells[k]) \notin 0..4
  /\ gridRows(cells)[0][0] # 0
  /\ gridRows(cells)[4][4] # 0
  /\ gridRows(cells)[1][1] = 0

\* C2: where several cells of the list parse to the same (row, col) of the
\* grid, the grid position refers to the last of them in list order.
C2_LastWriteWins ==
  Mounted =>
    \A grid \in {gridRows(cells)}, rows \in {Rows(cells)} :
       \A r \in 0..4, c \in 0..4 :
         AtRows(rows, cells, r, c) # {} =>
           /\ grid[r][c] \in AtRows(rows, cells, r, c)
           /\ \A k \in AtRows(rows, cells, r, c) : k <= grid[r][c]

\* two different cells at (0, 0): the grid shows the later one
C2_Witness ==
  /\ Mounted
  /\ \E j, k \in At(cells, 0, 0) :
       /\ j < k
       /\ cells[j] # cells[k]
       /\ gridRows(cells)[0][0] = k

\* C3: a cell whose parsed row index is outside 0..4 is referred to by no
\* grid position; no step of an editor session removes or changes it in the
\* flat list; and the list a confirm sends contains it.
C3_OutOfRangeKept ==
  /\ [](Mounted =>
          \A grid \in {gridRows(cells)}, rows \in {Rows(cells)} :
            \A r \in 0..4, c \in 0..4 :
              grid[r][c] # 0 => rows[grid[r][c]] \in 0..4)
  /\ [][(Mounted /\ Mounted' /\ ocrData' = ocrData) =>
          \A k \in 1..Len(cells) :
            RowOf(cells[k]) \notin 0..4 =>
              k <= Len(cells') /\ cells'[k] = cells[k]]_vars
  /\ [][\A req \in saves' \ saves :
          (req.answer = "pending" /\ req.live) =>
            \A k \in 1..Len(cells) :
              RowOf(cells[k]) \notin 0..4 =>
                \E j \in 1..Len(req.cambios) : req.cambios[j] = cells[k]]_vars

\* a confirm in flight whose list has an edited cell and an out-of-range one
C3_Witness ==
  \E req \in saves :
    /\ req.live
    /\ \E k \in 1..Len(req.cambios) : RowOf(req.cambios[k]) \notin 0..4
    /\ \E j \in 1..Len(req.cambios) : req.cambios[j].valor = "7"

\* the value of a string of decimal digits, read from the left
RECURSIVE DecimalFrom(_, _)
DecimalFrom(text, acc) ==
  IF text = <<>> THEN acc
  ELSE DecimalFrom(Tail(text),
         acc * 10 + (CASE Head(text) = "0" -> 0 [] Head(text) = "1" -> 1
                       [] Head(text) = "2" -> 2 [] Head(text) = "3" -> 3
                       [] Head(text) = "4" -> 4 [] Head(text) = "5" -> 5
                       [] Head(text) = "6" -> 6 [] Head(text) = "7" -> 7
                       [] Head(text) = "8" -> 8 [] Head(text) = "9" -> 9))

Decimal(text) == DecimalFrom(text, 0)

\* a non-empty string of decimal digits
IsDigits(text) ==
  /\ text # <<>>
  /\ \A i \in 1..Len(text) :
       text[i] \in {"0", "1", "2", "3", "4", "5", "6", "7", "8", "9"}

\* the whole of text is "Fila" in any case, then i - 4 blanks, then digits
IsFilaAt(text, i) ==
  /\ i >= 4 /\ i < Len(text)
  /\ text[1] \in {"F", "f"} /\ text[2] \in {"I", "i"}
  /\ text[3] \in {"L", "l"} /\ text[4] \in {"A", "a"}
  /\ \A j \in 5..i : text[j] = " "
  /\ IsDigits(SubSeq(text, i + 1, Len(text)))

\* C4: a label that is 'Fila N' parses to N - 1, a label that is a string of
\* digits D parses to D, and a numeric label parses to itself.
C4_ParsesLabels ==
  pc = "done" =>
    /\ rowLabel.t = "number" => parsed = Returned(rowLabel.n)
    /\ rowLabel.t = "string" =>
         /\ IsDigits(rowLabel.s) => parsed = Returned(Decimal(rowLabel.s))
         /\ \A i \in 4..Len(rowLabel.s) :
              IsFilaAt(rowLabel.s, i) =>
                parsed = Returned(Decimal(SubSeq(rowLabel.s, i + 1, Len(rowLabel.s))) - 1)

\* 'Fila 1' was parsed, to 0
C4_Witness ==
  /\ pc = "done"
  /\ rowLabel = StrLabel(<<"F", "i", "l", "a", " ", "1">>)
  /\ parsed = Returned(0)

\* C5: the parser returns a number, and never throws, for every label: a
\* number, any string, or a missing value.
C5_ParserTotal == pc = "done" => ~parsed.threw

\* C6: setValue(row, col, v) on a coordinate that a cell of the list parses
\* to keeps the length and the order of the list, sets the value of one cell
\* at that coordinate to v and leaves that cell's label, column, confidence
\* and ref_id, and every other cell, as they were.
C6_EditKeepsCell ==
  Mounted =>
    \A rows \in {Rows(cells)} :
      \A r \in 0..4, c \in 0..4, v \in EditValues :
        AtRows(rows, cells, r, c) # {} =>
          \A next \in {handleValueChange(cells, r, c, v)} :
            /\ Len(next) = Len(cells)
            /\ \E k \in AtRows(rows, cells, r, c) :
                 /\ next[k].valor = v
                 /\ next[k].fila = cells[k].fila
                 /\ next[k].col = cells[k].col
                 /\ next[k].confianza = cells[k].confianza
                 /\ next[k].ref_id = cells[k].ref_id
                 /\ \A j \in 1..Len(cells) : j # k => next[j] = cells[j]

\* the cell labelled 'Fila 1' has been edited from "5" to "7"
C6_Witness ==
  /\ Mounted
  /\ Len(cells) = Len(originalCells)
  /\ \E k \in 1..Len(cells) :
       /\ originalCells[k] = Cell(Fila1, 0, "5", 84999, "R0_C0")
       /\ cells[k] = Cell(Fila1, 0, "7", 84999, "R0_C0")
       /\ \A j \in 1..Len(originalCells) : j # k => cells[j] = originalCells[j]

\* C7: setValue(row, col, v) on a coordinate that no cell of the list parses
\* to appends one cell with the integer row, the column, the value v,
\* confidence 1.0 and no ref_id, and leaves the cells before it unchanged.
C7_EditAppends ==
  Mounted =>
    \A rows \in {Rows(cells)} :
      \A r \in 0..4, c \in 0..4, v \in EditValues :
        AtRows(rows, cells, r, c) = {} =>
          handleValueChange(cells, r, c, v) =
            Append(cells, [fila |-> NumLabel(r), col |-> c, valor |-> v,
                           confianza |-> 100000, ref_id |-> Undefined])

\* an edit of (4, 4) has added a cell to the list the server sent
C7_Witness ==
  /\ Mounted
  /\ Len(cells) = Len(originalCells) + 1
  /\ SubSeq(cells, 1, Len(originalCells)) = originalCells
  /\ cells[Len(cells)] =
       [fila |-> NumLabel(4), col |-> 4, valor |-> "7", confianza |-> 100000,
        ref_id |-> Undefined]

\* C8: while the editor shows a document, the Snapshot is the initial flat
\* cell list of that document; no step changes it but the load of another
\* document.
C8_SnapshotFixed ==
  /\ [](Mounted => originalCells = InitialCells(ocrData))
  /\ [][(Mounted /\ Mounted' /\ originalCells' # originalCells) =>
          ocrData' # ocrData]_vars

\* the second document, edited, after a failed request
C8_Witness ==
  /\ Mounted
  /\ ocrData.id = 2
  /\ originalCells # <<>>
  /\ cells # originalCells
  /\ notification.type = "error"

\* C9: the correction list a feedback request carries has one record per
\* cell of the flat list, in list order, also for cells without ref_id
\* (ref_id is then ""); a record's corrected value is the cell's value, its
\* original value is that of a Snapshot cell at the same parsed (row, col),
\* or "" when the Snapshot has none there.
C9_Corrections ==
  [][\A req \in feedbacks' \ feedbacks :
       (req.answer = "pending" /\ req.live) =>
         \A list \in {req.correcciones}, rows \in {Rows(cells)},
            snap \in {Rows(originalCells)} :
           /\ Len(list) = Len(cells)
           /\ \A k \in 1..Len(cells) :
                /\ list[k].valor_corregido = cells[k].valor
                /\ list[k].ref_id =
                     (IF cells[k].ref_id = Undefined THEN "" ELSE cells[k].ref_id)
                /\ LET same == {j \in 1..Len(originalCells) :
                                  /\ snap[j] = rows[k]
                                  /\ originalCells[j].col = cells[k].col}
                   IN /\ same = {} => list[k].valor_original = ""
                      /\ same # {} =>
                           \E j \in same :
                             list[k].valor_original = originalCells[j].valor]_vars

\* a feedback request in flight with a record of an edited server cell and
\* a record of a cell the user added
C9_Witness ==
  \E req \in feedbacks :
    /\ \E k \in 1..Len(req.correcciones) :
         /\ req.correcciones[k].ref_id = ""
         /\ req.correcciones[k].valor_original = ""
         /\ req.correcciones[k].valor_corregido = "7"
    /\ \E j \in 1..Len(req.correcciones) :
         /\ req.correcciones[j].ref_id = "R0_C0"
         /\ req.correcciones[j].valor_original = "5"
         /\ req.correcciones[j].valor_corregido = "X"

\* C10: when the handler of a failed validation commit runs, an error
\* message is shown, the view, the flat cell list, the Snapshot, the grid and
\* the loaded document stay as they are, and the editor that sent the
\* request can confirm again, which sends the unchanged list.
C10_FailedCommit ==
  [][\A req \in saves :
       (/\ req.answer \in Failures
        /\ req \notin saves'
        /\ [req EXCEPT !.live = FALSE] \notin saves') =>
         /\ notification'.type = "error"
         /\ view' = view
         /\ ocrData' = ocrData
         /\ cells' = cells
         /\ originalCells' = originalCells
         /\ gridRows(cells') = gridRows(cells)
         /\ req.live => (Mounted' /\ view' = "editor" /\ ~isSaving')]_vars

\* an edited document in the editor right after a failed commit
C10_Witness ==
  /\ Mounted
  /\ view = "editor"
  /\ notification = [type |-> "error", message |-> "Error al guardar: Error de conexion."]
  /\ cells # originalCells
  /\ ~isSaving
  /\ saves = {}

\* C11: a step takes the view to 'success' only by handling a 2xx answer to
\* a validation commit.
C11_SuccessOnlyOn2xx ==
  [][(view' = "success" /\ view # "success") =>
       \E req \in saves :
         /\ req.answer = "ok"
         /\ req \notin saves'
         /\ [req EXCEPT !.live = FALSE] \notin saves']_vars

\* the success view, after a commit of the second document
C11_Witness ==
  /\ view = "success"
  /\ ocrData.id = 2
  /\ notification.type = "success"

\* C12: of each kind (upload, validation commit, feedback) at most one
\* request is outstanding at a time.
C12_OnePendingPerKind ==
  /\ Cardinality({req \in uploads : req.answer = "pending"}) <= 1
  /\ Cardinality({req \in saves : req.answer = "pending"}) <= 1
  /\ Cardinality({req \in feedbacks : req.answer = "pending"}) <= 1

\* C13: a validation commit is sent only from the editor of a loaded
\* document that an upload brought, to that document's id; with no document
\* loaded no commit is sent.
C13_CommitOfLoadedDocument ==
  [][\A req \in saves' \ saves :
       (req.answer = "pending" /\ req.live) =>
         /\ ocrData # NoDoc
         /\ ocrData' = ocrData
         /\ view = "editor"
         /\ ocrData.id \in 1..(nextId - 1)
         /\ req.id = ocrData.id]_vars

\* a commit of the second document is in flight
C13_Witness ==
  \E req \in saves :
    /\ req.live
    /\ req.answer = "pending"
    /\ req.id = 2
    /\ ocrData.id = 2

\* C14: while the editor shows a document, no two cells of the flat list
\* parse to the same coordinate of the grid.
C14_OneCellPerCoordinate ==
  Mounted =>
    \A rows \in {Rows(cells)} :
      \A r \in 0..4, c \in 0..4 : Cardinality(AtRows(rows, cells, r, c)) <= 1

\* a feedback request of this editor has just been sent
FeedbackSent ==
  \E req \in feedbacks' \ feedbacks : req.answer = "pending" /\ req.live

\* the handler of the answer to feedback request req runs
FeedbackHandled(req) ==
  /\ req \in feedbacks
  /\ req.answer # "pending"
  /\ req \notin feedbacks'
  /\ [req EXCEPT !.live = FALSE] \notin feedbacks'

\* C15: sending feedback, and handling its answer, 2xx or not, change
\* nothing but the training flag, the notification and the request itself:
\* the flat list, the Snapshot, the document and the view stay, and once the
\* answer is handled the editor that sent it can send again.
C15_FeedbackFrame ==
  [][(FeedbackSent \/ \E req \in feedbacks : FeedbackHandled(req)) =>
       /\ cells' = cells
       /\ originalCells' = originalCells
       /\ ocrData' = ocrData
       /\ view' = view
       /\ UNCHANGED <<user, currentModule, selectedFile, isUploading,
                      uploadError, isSaving, uploads, saves, nextId, crashed>>
       /\ \A req \in feedbacks :
            (FeedbackHandled(req) /\ req.live) => (Mounted' /\ ~isTraining')]_vars

\* an edited document in the editor right after a failed feedback
C15_Witness ==
  /\ Mounted
  /\ notification = [type |-> "error", message |-> "Error al enviar feedback: <err.message>"]
  /\ cells # originalCells
  /\ ~isTraining
  /\ feedbacks = {}

\* C16: the cell list a confirm sends never has more than 25 cells
C16_AtMost25 ==
  \A req \in saves : Len(req.cambios) <= FIXED_ROW_COUNT * (LAST_COL + 1)

\* C17: a grid position is flagged low-confidence exactly when it holds a
\* cell whose confidence is strictly below 0.85 (85000 in the units of the
\* model): a cell at 0.85 is not flagged, one at 0.84999 is, an empty position
\* and a cell at 1.0 never are; the desktop table and the mobile list agree.
C17_LowConfidenceFlag ==
  Mounted =>
    \A grid \in {gridRows(cells)}, rows \in {Rows(cells)} :
       \A r \in 0..4, c \in 0..4 :
         \A held \in {AtRows(rows, cells, r, c)} :
           \A flagged \in {isLowConfidence(cells, grid[r][c])} :
             /\ flagged = renderMobileInput_isLowConfidence(cells, grid[r], c)
             /\ flagged <=>
                  \E k \in held : /\ \A j \in held : j <= k
                                  /\ cells[k].confianza < 85000
             /\ held = {} => ~flagged
             /\ \A k \in held :
                  (\A j \in held : j <= k) =>
                    /\ cells[k].confianza = 85000 => ~flagged
                    /\ cells[k].confianza = 84999 => flagged
                    /\ cells[k].confianza = 100000 => ~flagged

\* a server cell at 0.84999 is flagged at (0, 0), a cell the user created at
\* (4, 4) is not, and the empty position (1, 1) is not
C17_Witness ==
  /\ Mounted
  /\ \E k \in At(cells, 0, 0) :
       /\ gridRows(cells)[0][0] = k
       /\ cells[k].confianza = 84999
       /\ isLowConfidence(cells, k)
       /\ renderMobileInput_isLowConfidence(cells, gridRows(cells)[0], 0)
  /\ \E k \in At(cells, 4, 4) :
       /\ gridRows(cells)[4][4] = k
       /\ cells[k].confianza = FullConfidence
       /\ cells[k].ref_id = Undefined
       /\ ~isLowConfidence(cells, k)
       /\ ~renderMobileInput_isLowConfidence(cells, gridRows(cells)[4], 4)
  /\ At(cells, 1, 1) = {}
  /\ ~isLowConfidence(cells, gridRows(cells)[1][1])
  /\ ~renderMobileInput_isLowConfidence(cells, gridRows(cells)[1], 1)

\* the step on which handleUpload's catch block handles the failed upload req
UploadFailureHandled(req) ==
  /\ req \in uploads
  /\ req.answer \in Failures
  /\ uploads' = uploads \ {req}

\* a failed upload leaves the workflow in the upload step and loads no
\* document: ocrData is what it was
UploadFailureKeepsStep ==
  [][\A req \in uploads :
       UploadFailureHandled(req) =>
         /\ view = "upload" /\ view' = "upload"
         /\ ocrData' = ocrData
         /\ isUploading' = FALSE]_vars

\* C18: when an upload fails at the fetch level the user is shown the
\* connection-error message; when the server answers with a non-2xx status
\* the user is shown a server-error message, never the connection-error
\* message, whatever the body of the answer; either way the view stays
\* "upload" and no document is loaded.
C18_UploadFailureMessages ==
  [][\A req \in uploads :
       UploadFailureHandled(req) =>
         /\ req.answer \in {"network", "network-other"} =>
              uploadError' = "Error de conexion. Verifica que el Colab este activo y la URL sea correcta."
         /\ req.answer \in {"http", "http-fetch"} =>
              uploadError' = "Error Servidor (<status>): <errorMessage>"
         /\ view' = "upload"
         /\ ocrData' = ocrData]_vars

\* the requests a step sends: those of reqsAfter in a slot no request of
\* reqsBefore has
Sent(reqsBefore, reqsAfter) ==
  {req \in reqsAfter : \A old \in reqsBefore : old.slot # req.slot}

\* C19: every upload, validation-commit and feedback request is sent to the
\* base URL configured at that moment (apiUrl: the default set at startup, or
\* the one the operator saved), whether the startup probe succeeded or failed.
C19_OneBaseUrl ==
  [][\A req \in Sent(uploads, uploads') \cup Sent(saves, saves')
                 \cup Sent(feedbacks, feedbacks') :
       req.url = apiUrl]_vars

\* C20: a string label that is not, as a whole, 'Fila' with optional blanks
\* and digits (in any case), and is not a string of digits, parses to -1.
C20_OtherLabelsInvalid ==
  (/\ pc = "done"
   /\ rowLabel.t = "string"
   /\ ~IsDigits(rowLabel.s)
   /\ \A i \in 4..Len(rowLabel.s) : ~IsFilaAt(rowLabel.s, i))
  => parsed = Returned(-1)

\* C21: when the editor starts on a document, the flat list is
\* resultado_ia.matriz if the document has it, else the top-level matriz if
\* it has that, else empty; and the Snapshot equals the flat list.
C21_InitialList ==
  [][(Mounted' /\ (~Mounted \/ ocrData' # ocrData)) =>
       /\ cells' = (IF ocrData'.resultado_ia # <<>> THEN ocrData'.resultado_ia[1]
                    ELSE IF ocrData'.matriz # <<>> THEN ocrData'.matriz[1]
                    ELSE <<>>)
       /\ originalCells' = cells']_vars

\* an editor that has just started on a document with only the legacy matriz
C21_Witness ==
  /\ Mounted
  /\ ocrData.resultado_ia = <<>>
  /\ ocrData.matriz # <<>>
  /\ cells # <<>>
  /\ cells = ocrData.matriz[1]
  /\ originalCells = cells

\* C22: when the app has opened (the loading screen ends), the API
\* configuration modal is on the screen, before the user can do anything
\* else.
C22_ModalOnOpen ==
  [][(isInitializing /\ ~isInitializing') => ModalShown']_vars

\* C30: the modal's status is 'success' only for a URL whose probe
\* succeeded: it becomes 'success' when a probe issued for the URL now in
\* the input succeeds, and stays 'success' only while that URL stays.
C30_SuccessIsForInput ==
  [][status' = "success" =>
       \/ status = "success" /\ cleanUrl(urlInput') = cleanUrl(urlInput)
       \/ \E req \in probes :
            /\ req.live /\ req.answer = "ok"
            /\ probes' = probes \ {req}
            /\ req.url = cleanUrl(urlInput')]_vars

\* C23: after setValue(r, c, v) with r and c in 0..4 the grid built from the
\* new list shows v at (r, c), whatever the list, lists with several cells
\* at (r, c) included.
C23_GridShowsEdit ==
  Mounted =>
    \A r \in 0..4, c \in 0..4, v \in EditValues :
      \A next \in {handleValueChange(cells, r, c, v)} :
        \A shown \in {gridRows(next)[r][c]} :
          /\ shown # 0
          /\ next[shown].valor = v

\* C24: an answer to a request sent before Descartar or a logout changes
\* nothing after it.  A document is loaded only for a logged-in user; the
\* view becomes 'success' only on a 2xx answer to a commit of the document
\* that is loaded; and the view is 'editor' or 'success' only while a
\* document is loaded.
C24_NoStaleResponse ==
  [][/\ (ocrData' # ocrData /\ ocrData' # NoDoc) => user # "none"
     /\ (view' = "success" /\ view # "success") =>
          \E req \in saves :
            /\ req.answer = "ok" /\ req \notin saves'
            /\ ocrData # NoDoc /\ req.id = ocrData.id
     /\ view' \in {"editor", "success"} => ocrData' # NoDoc]_vars

\* C25: when the view becomes 'success', the list the server accepted is the
\* flat list of the editor that sent it as it stands at that moment: edits
\* typed while the commit was in flight are in the committed payload.
C25_CommittedIsCurrent ==
  [][(view' = "success" /\ view # "success") =>
       \E req \in saves :
         /\ req.answer = "ok" /\ req \notin saves'
         /\ req.live => req.cambios = cells]_vars

\* no two cells of a list parse to the same (row, col), given the parsed
\* row indexes of the list
OneCellEach(rows, cellList) ==
  \A j, k \in 1..Len(cellList) :
    (rows[j] = rows[k] /\ Number(cellList[j].col) = Number(cellList[k].col))
      => j = k

\* C26: if no two cells of the initial list (the Snapshot) parse to the same
\* (row, col), then no two cells of the flat list do after any edits, and
\* after one more setValue(r, c, v) with r and c in 0..4; the list is never
\* shorter than the initial one, an edit never shortens it, and it grows, by
\* one, exactly when no cell parsed to (r, c); a second edit of (r, c) does
\* not grow it again.
C26_EditsKeepOnePerCoordinate ==
  (Mounted /\ OneCellEach(Rows(originalCells), originalCells)) =>
    \A rows \in {Rows(cells)} :
      /\ OneCellEach(rows, cells)
      /\ Len(cells) >= Len(originalCells)
      /\ \A r \in 0..4, c \in 0..4, v \in EditValues :
           \A next \in {handleValueChange(cells, r, c, v)} :
             /\ OneCellEach(Rows(next), next)
             /\ Len(next) = IF AtRows(rows, cells, r, c) = {}
                            THEN Len(cells) + 1 ELSE Len(cells)
             /\ \A v2 \in EditValues :
                  \A again \in {handleValueChange(next, r, c, v2)} :
                    /\ Len(again) = Len(next)
                    /\ \E k \in 1..Len(again) :
                         /\ again[k].valor = v2
                         /\ RowOf(again[k]) = r /\ Number(again[k].col) = c

\* a one-cell document without duplicates, and two cells out of a first
\* edit each, the one at (4, 4) edited a second time
C26_Witness ==
  /\ Mounted
  /\ Len(originalCells) = 1
  /\ OneCellEach(Rows(originalCells), originalCells)
  /\ At(originalCells, 0, 0) = {} /\ At(originalCells, 4, 4) = {}
  /\ Len(cells) = 3
  /\ OneCellEach(Rows(cells), cells)
  /\ \E k \in At(cells, 4, 4) : cells[k].valor = "X"
  /\ \E k \in At(cells, 0, 0) : cells[k].valor = "7"

\* C27: when an upload's answer loads a document and the editor shows it,
\* the file the editor gets as its reference image (selectedFile) is the
\* file that upload sent.
C27_ImageOfLoadedDocument ==
  [][(ocrData' # ocrData /\ ocrData' # NoDoc /\ Mounted') =>
       \E req \in uploads :
         /\ req.answer = "ok" /\ req \notin uploads'
         /\ req.data = ocrData'
         /\ selectedFile' = req.file]_vars

\* the slots of the requests in a set
Slots(reqs) == {req.slot : req \in reqs}

\* C28: the pending flag a request set is cleared by the handler of its
\* answer, whatever the answer (2xx, non-2xx, a failed fetch, a body that is
\* not JSON); a flag is set only while a request that set it is in flight;
\* and once a request has settled its flag is eventually cleared, so that
\* the control is enabled again.
C28_PendingFlagsCleared ==
  /\ [][/\ \A req \in uploads :
            (req.answer # "pending" /\ req.slot \notin Slots(uploads'))
              => ~isUploading'
        /\ \A req \in saves :
            (req.answer # "pending" /\ req.live /\ req.slot \notin Slots(saves'))
              => ~isSaving'
        /\ \A req \in feedbacks :
            (req.answer # "pending" /\ req.live
               /\ req.slot \notin Slots(feedbacks'))
              => ~isTraining']_vars
  /\ [](isUploading => uploads # {})
  /\ []((Mounted /\ isSaving) => \E req \in saves : req.live)
  /\ []((Mounted /\ isTraining) => \E req \in feedbacks : req.live)
  /\ ((\E req \in uploads : req.answer # "pending") ~> ~isUploading)
  /\ ((\E req \in saves : req.live /\ req.answer # "pending") ~> ~isSaving)
  /\ ((\E req \in feedbacks : req.live /\ req.answer # "pending")
        ~> ~isTraining)

\* an upload failed on a body that was not JSON (or a fetch error of another
\* text): the flag is cleared and Procesar is enabled again
C28_Witness ==
  /\ user # "none" /\ currentModule = "ocr" /\ view = "upload"
  /\ uploadError = "<err.message>"
  /\ uploads = {}
  /\ ~isUploading
  /\ selectedFile # NoFile

\* C29: the lookup of a cell's original value for data-original files a
\* Snapshot label under the row the parser files it under: for every label
\* the parser returns a number for, and every row r of the grid, the lookup
\* matches r exactly when the parser returns r.
C29_LookupAgreesWithParser ==
  (pc = "done" /\ ~parsed.threw) =>
    \A r \in GridRowIndexes :
      originalRowMatches(rowLabel, r) <=> (parsed = Returned(r))

====
